---- MODULE Spec2Model ----
(***************************************************************************)
(* The Tajweed rule engine of src/direct_arch.py                           *)
(* (GenericQuranPhoneticScript): engine construction, text normalisation, *)
(* the per-position rule resolver and the left-to-right scan of            *)
(* process_text.                                                           *)
(*                                                                         *)
(* A text is a sequence of characters.  An Arabic character is written by  *)
(* a name ("noon" is U+0646, "sukun" is U+0652, ...); an ASCII character   *)
(* is written as itself ("x", " ").  A non-ASCII symbol inside a phoneme   *)
(* or attribute string is written by its code point ("U+0294").  Offsets   *)
(* are zero-based, as in the source.                                       *)
(***************************************************************************)
EXTENDS Integers, Sequences, FiniteSets, TLC

\* ------------------------------------------------------------- bounds
\* Longest input text handed to process_text.
MaxLen == 3

\* The longest text of the definite-article scenario (alif, lam, a mark and
\* the letter two positions after the lam).
MaxArticleLen == 4

\* The longest text of the runs that compare a position with its window of
\* five characters: one character more than a window at the text's end holds.
MaxWindowLen == 4

\* The longest text of a run of several calls on one engine.
MaxCallLen == 2

\* ------------------------------------------------------------- enums
TajweedRuleCategory ==
    [ NOON_SAKINAH |-> "noon_sakinah", MEEM_SAKINAH |-> "meem_sakinah",
      LAM_DEFINITE |-> "lam_definite", MADD |-> "madd",
      QALQALAH |-> "qalqalah", TAFKHIM |-> "tafkhim", TARQEEQ |-> "tarqeeq",
      STOPPING |-> "waqf", STARTING |-> "ibtida", SILENT |-> "sakt",
      GUNNAH |-> "ghunnah", IDGHAM |-> "idgham", IKHFAA |-> "ikhfa",
      IQLAB |-> "iqlab", IZHAAR |-> "izhaar", HAMS |-> "hams",
      JAHR |-> "jahr", SHIDDAH |-> "shiddah", RIKHWAH |-> "rikhwah",
      ISTILA |-> "istila", ISTIFAL |-> "istifal", ITBAQ |-> "itbaq",
      INFITAH |-> "infitah", SAFEER |-> "safeer", TAKREER |-> "takreer",
      INHIRAF |-> "inhiraf" ]

SifaAttributes ==
    [ HAMS |-> "H", JAHR |-> "J", RIKHWA |-> "R", SHAFWI |-> "F",
      SHIDDAH |-> "S", TAWASSUT |-> "T", GUNNAH |-> "G", ISTILA |-> "I",
      ISTIFAL |-> "L", ITBAQ |-> "B", INFITAH |-> "O", QALQALAH |-> "C",
      INHIRAF |-> "Y", TAKREER |-> "R", TAFKHIM |-> "M", TARQEEQ |-> "Q",
      SAFEER |-> "Sf", DUR_2 |-> "2", DUR_4 |-> "4", DUR_5 |-> "5",
      DUR_6 |-> "6", IDGHAM |-> "D", IKHFAA |-> "K", IQLAB |-> "B",
      IZHAAR |-> "Z" ]

\* ------------------------------------------------------------- tables
\* self.reverse_phoneme_map: character -> phoneme and default attributes.
reverse_phoneme_map ==
    [ hamza |-> [phoneme |-> "U+0294", sifa |-> <<"J", "S">>],
      alif |-> [phoneme |-> "U+0294", sifa |-> <<>>],
      ba |-> [phoneme |-> "b", sifa |-> <<"J", "R", "Q">>],
      ta |-> [phoneme |-> "t", sifa |-> <<"H", "S">>],
      tha |-> [phoneme |-> "U+03B8", sifa |-> <<"H", "R">>],
      jeem |-> [phoneme |-> "dU+0292", sifa |-> <<"J", "S", "Q">>],
      hha |-> [phoneme |-> "U+0127", sifa |-> <<"H", "R">>],
      kha |-> [phoneme |-> "x", sifa |-> <<"H", "R", "I">>],
      dal |-> [phoneme |-> "d", sifa |-> <<"J", "S", "Q">>],
      dhal |-> [phoneme |-> "U+00F0", sifa |-> <<"J", "R">>],
      ra |-> [phoneme |-> "r", sifa |-> <<"J", "T", "Rr">>],
      zay |-> [phoneme |-> "z", sifa |-> <<"J", "R">>],
      seen |-> [phoneme |-> "s", sifa |-> <<"H", "R", "Sf">>],
      sheen |-> [phoneme |-> "U+0283", sifa |-> <<"H", "R">>],
      sad |-> [phoneme |-> "sU+02E4", sifa |-> <<"J", "R", "I", "B", "Sf">>],
      dad |-> [phoneme |-> "dU+02E4", sifa |-> <<"J", "R", "I", "B">>],
      tta |-> [phoneme |-> "tU+02E4", sifa |-> <<"J", "S", "I", "B", "Q">>],
      zza |-> [phoneme |-> "U+00F0U+02E4", sifa |-> <<"J", "R", "I", "B">>],
      ayn |-> [phoneme |-> "U+0295", sifa |-> <<"J", "T">>],
      ghayn |-> [phoneme |-> "U+0263", sifa |-> <<"J", "R", "I">>],
      fa |-> [phoneme |-> "f", sifa |-> <<"J", "R", "F">>],
      qaf |-> [phoneme |-> "q", sifa |-> <<"J", "S", "I", "Q">>],
      kaf |-> [phoneme |-> "k", sifa |-> <<"H", "S">>],
      lam |-> [phoneme |-> "l", sifa |-> <<"J", "R", "Y">>],
      meem |-> [phoneme |-> "m", sifa |-> <<"J", "R", "F">>],
      noon |-> [phoneme |-> "n", sifa |-> <<"J", "T", "Y">>],
      ha |-> [phoneme |-> "h", sifa |-> <<"H", "R">>],
      waw |-> [phoneme |-> "w", sifa |-> <<"J", "R">>],
      ya |-> [phoneme |-> "j", sifa |-> <<"J", "R">>],
      fatha |-> [phoneme |-> "a", sifa |-> <<>>],
      kasra |-> [phoneme |-> "i", sifa |-> <<>>],
      damma |-> [phoneme |-> "u", sifa |-> <<>>],
      tanween_fath |-> [phoneme |-> "an", sifa |-> <<"G">>],
      tanween_kasr |-> [phoneme |-> "in", sifa |-> <<"G">>],
      tanween_damm |-> [phoneme |-> "un", sifa |-> <<"G">>],
      sukun |-> [phoneme |-> "", sifa |-> <<>>],
      shadda |-> [phoneme |-> "U+02D0", sifa |-> <<>>],
      alif_with_kasra |-> [phoneme |-> "U+0294i", sifa |-> <<>>],
      alif_with_fatha |-> [phoneme |-> "U+0294a", sifa |-> <<>>],
      alif_madd |-> [phoneme |-> "U+0294U+0101", sifa |-> <<"M">>],
      alif_wasl |-> [phoneme |-> "U+0294", sifa |-> <<>>],
      alif_khanjariya |-> [phoneme |-> "U+0101", sifa |-> <<"M">>] ]

\* Letter classes of _init_letter_properties (membership of one character).
throat_letters == {"hamza", "ha", "ayn", "hha", "ghayn", "kha"}
idgham_bi_ghunnah == {"ya", "waw", "meem", "noon"}
idgham_bila_ghunnah == {"ra", "lam"}
iqlab_letter == "ba"
\* Mutant of ikhfaa_letters: ra stands where zay should.
ikhfaa_letters_with_ra ==
    {"sad", "dad", "tta", "zza", "seen", "sheen", "tha", "dal", "dhal", "ra"}

ikhfaa_letters ==
    {"sad", "dad", "tta", "zza", "seen", "sheen", "tha", "dal", "dhal", "zay"}
qalqalah_letters == {"qaf", "tta", "ba", "dal"}
always_heavy == {"kha", "sad", "dad", "ghayn", "zza", "qaf", "tta"}
shamsi_letters ==
    {"ta", "tha", "dal", "dhal", "ra", "zay", "seen", "sheen", "sad", "dad",
     "tta", "zza", "lam", "noon"}
qamari_letters ==
    {"hamza", "ba", "ghayn", "hha", "jeem", "fa", "kaf", "waw", "ha", "ya"}
madd_letters == {"alif", "waw", "ya"}
ghunnah_letters == {"noon", "waw", "meem"}
safeer_letters == {"sad", "seen", "zay"}
hams_letters ==
    {"fa", "hha", "tha", "ha", "seen", "sheen", "kaf", "kha", "ta"}
jahr_letters ==
    {"hamza", "ba", "jeem", "dal", "dhal", "ra", "zay", "sad", "dad", "tta",
     "zza", "ayn", "ghayn", "qaf", "lam", "meem", "noon", "waw", "ha", "ya"}

\* The trigger set written out in each noon-sakinah/tanween predicate.
NoonTanween == {"noon", "tanween_fath", "tanween_kasr", "tanween_damm"}

\* str.isspace() on one character.
isspace(c) == c \in {" ", "\t", "\n"}

\* ------------------------------------------------------------- reading text
\* text[k] of a Python str: a negative k counts from the end, and an offset
\* outside [-len, len) raises IndexError.
At(text, k) ==
    IF k >= 0 /\ k < Len(text) THEN text[k + 1]
    ELSE IF k < 0 /\ 0 - k <= Len(text) THEN text[Len(text) + k + 1]
    ELSE "IndexError"

\* text[a:b] for 0 <= a <= b: a slice never raises, it is cut at the end.
Slice(text, a, b) ==
    IF a >= Len(text) THEN <<>>
    ELSE SubSeq(text, a + 1, IF b < Len(text) THEN b ELSE Len(text))

\* The value of a predicate together with the text offsets its evaluation
\* subscripts: m is the truth value, rd the offsets k of every text[k] it
\* evaluates, Python's left-to-right short-circuit order included.
Res(m, rd) == [m |-> m, rd |-> rd]
Pure(b) == Res(b, {})
In(text, k, S) == Res(At(text, k) \in S, {k})
Is(text, k, c) == Res(At(text, k) = c, {k})
SpaceAt(text, k) == Res(isspace(At(text, k)), {k})
AND(a, b) == IF a.m THEN Res(b.m, a.rd \cup b.rd) ELSE a
OR(a, b) == IF a.m THEN a ELSE Res(b.m, a.rd \cup b.rd)
NOT(a) == Res(~a.m, a.rd)
After(rd, a) == Res(a.m, rd \cup a.rd)

\* ------------------------------------------------------------- rule predicates
\* 1. noon sakinah and tanween
\* Mutant of izhaar_condition: the noon must carry a written sukun.
izhaar_condition_needs_sukun(text, pos) ==
    IF pos + 2 >= Len(text) THEN Pure(FALSE)
    ELSE AND(In(text, pos, NoonTanween),
             AND(Is(text, pos + 1, "sukun"),
                 In(text, pos + 2, throat_letters)))

izhaar_condition(text, pos) ==
    IF pos + 1 >= Len(text) THEN Pure(FALSE)
    ELSE After({pos, pos + 1},
               AND(In(text, pos, NoonTanween),
                   AND(Pure(pos + 1 < Len(text)),
                       In(text, pos + 1, throat_letters))))

idgham_bi_ghunnah_condition(text, pos) ==
    IF pos + 1 >= Len(text) THEN Pure(FALSE)
    ELSE After({pos, pos + 1},
               AND(In(text, pos, NoonTanween),
                   Pure(At(text, pos + 1) \in idgham_bi_ghunnah)))

idgham_bila_ghunnah_condition(text, pos) ==
    IF pos + 1 >= Len(text) THEN Pure(FALSE)
    ELSE After({pos, pos + 1},
               AND(In(text, pos, NoonTanween),
                   Pure(At(text, pos + 1) \in idgham_bila_ghunnah)))

iqlab_condition(text, pos) ==
    IF pos + 1 >= Len(text) THEN Pure(FALSE)
    ELSE After({pos, pos + 1},
               AND(In(text, pos, NoonTanween),
                   Pure(At(text, pos + 1) = iqlab_letter)))

\* Mutant of ikhfaa_condition: the concealment letters are taken to be every
\* letter that is neither a throat letter nor an idgham letter.
ikhfaa_condition_by_exclusion(text, pos) ==
    IF pos + 1 >= Len(text) THEN Pure(FALSE)
    ELSE After({pos, pos + 1},
               AND(In(text, pos, NoonTanween),
                   Pure(At(text, pos + 1) \in
                          (DOMAIN reverse_phoneme_map
                             \ (throat_letters \cup idgham_bi_ghunnah
                                  \cup idgham_bila_ghunnah)))))

ikhfaa_condition(text, pos) ==
    IF pos + 1 >= Len(text) THEN Pure(FALSE)
    ELSE After({pos, pos + 1},
               AND(In(text, pos, NoonTanween),
                   Pure(At(text, pos + 1) \in ikhfaa_letters)))

\* 2. meem sakinah
ikhfaa_shafawi_condition(text, pos) ==
    IF pos + 2 >= Len(text) THEN Pure(FALSE)
    ELSE AND(Is(text, pos, "meem"),
             AND(Pure(pos + 1 < Len(text)),
                 AND(Is(text, pos + 1, "sukun"),
                     AND(Pure(pos + 2 < Len(text)),
                         Is(text, pos + 2, "ba")))))

idgham_shafawi_condition(text, pos) ==
    IF pos + 2 >= Len(text) THEN Pure(FALSE)
    ELSE AND(Is(text, pos, "meem"),
             AND(Pure(pos + 1 < Len(text)),
                 AND(Is(text, pos + 1, "sukun"),
                     AND(Pure(pos + 2 < Len(text)),
                         Is(text, pos + 2, "meem")))))

izhaar_shafawi_condition(text, pos) ==
    IF pos + 2 >= Len(text) THEN Pure(FALSE)
    ELSE AND(Is(text, pos, "meem"),
             AND(Pure(pos + 1 < Len(text)),
                 AND(Is(text, pos + 1, "sukun"),
                     AND(Pure(pos + 2 < Len(text)),
                         NOT(In(text, pos + 2, {"ba", "meem"}))))))

\* 3. lam of the definite article
\* Mutant of lam_shamsiyyah_condition: the letter after the lam is taken to
\* be the next character, not the second-next.
lam_shamsiyyah_condition_next_char(text, pos) ==
    IF pos < 1 \/ pos + 2 >= Len(text) THEN Pure(FALSE)
    ELSE AND(Is(text, pos - 1, "alif"),
             AND(Is(text, pos, "lam"), In(text, pos + 1, shamsi_letters)))

lam_shamsiyyah_condition(text, pos) ==
    IF pos < 1 \/ pos + 2 >= Len(text) THEN Pure(FALSE)
    ELSE AND(Is(text, pos - 1, "alif"),
             AND(Is(text, pos, "lam"), In(text, pos + 2, shamsi_letters)))

lam_qamariyyah_condition(text, pos) ==
    IF pos < 1 \/ pos + 2 >= Len(text) THEN Pure(FALSE)
    ELSE AND(Is(text, pos - 1, "alif"),
             AND(Is(text, pos, "lam"), In(text, pos + 2, qamari_letters)))

\* 4. madd
\* Mutant of madd_tabii_condition: the shadda two offsets ahead is not
\* looked at.
madd_tabii_condition_ignores_shadda(text, pos) ==
    IF pos >= Len(text) THEN Pure(FALSE)
    ELSE IF At(text, pos) \notin madd_letters THEN Res(FALSE, {pos})
    ELSE IF pos + 1 < Len(text)
         THEN Res(At(text, pos + 1) \notin {"hamza", "sukun"}, {pos, pos + 1})
         ELSE Res(TRUE, {pos})

madd_tabii_condition(text, pos) ==
    IF pos >= Len(text) THEN Pure(FALSE)
    ELSE IF At(text, pos) \notin madd_letters THEN Res(FALSE, {pos})
    ELSE IF pos + 1 < Len(text)
         THEN IF At(text, pos + 1) \in {"hamza", "sukun"}
              THEN Res(FALSE, {pos, pos + 1})
              ELSE After({pos, pos + 1},
                         NOT(AND(Pure(pos + 2 < Len(text)),
                                 Is(text, pos + 2, "shadda"))))
         ELSE Res(TRUE, {pos})

madd_wajib_muttasil_condition(text, pos) ==
    IF pos + 1 >= Len(text) THEN Pure(FALSE)
    ELSE After({pos, pos + 1},
               AND(Pure(At(text, pos) \in madd_letters),
                   Pure(At(text, pos + 1) = "hamza")))

madd_jaiz_munfasil_condition(text, pos) ==
    IF pos + 2 >= Len(text) THEN Pure(FALSE)
    ELSE After({pos},
               AND(Pure(At(text, pos) \in madd_letters),
                   AND(SpaceAt(text, pos + 1), Is(text, pos + 2, "hamza"))))

\* Mutant of madd_lazim_condition: the length guard is off by one.
madd_lazim_condition_off_by_one(text, pos) ==
    IF pos + 2 > Len(text) THEN Pure(FALSE)
    ELSE After({pos},
               AND(Pure(At(text, pos) \in madd_letters),
                   Is(text, pos + 2, "shadda")))

madd_lazim_condition(text, pos) ==
    IF pos + 2 >= Len(text) THEN Pure(FALSE)
    ELSE After({pos},
               AND(Pure(At(text, pos) \in madd_letters),
                   Is(text, pos + 2, "shadda")))

madd_lin_condition(text, pos) ==
    IF pos + 2 >= Len(text) THEN Pure(FALSE)
    ELSE After({pos},
               AND(Pure(At(text, pos) \in {"waw", "ya"}),
                   AND(Pure(pos + 1 < Len(text)),
                       AND(Is(text, pos + 1, "sukun"),
                           NOT(In(text, pos + 2, madd_letters))))))

\* 5. qalqalah
\* Mutant of qalqalah_kubra_condition: what follows the sukun is not tested.
qalqalah_kubra_condition_any_sukun(text, pos) ==
    IF pos + 1 >= Len(text) THEN Pure(FALSE)
    ELSE After({pos},
               AND(Pure(At(text, pos) \in qalqalah_letters),
                   AND(Pure(pos + 1 < Len(text)),
                       Is(text, pos + 1, "sukun"))))

qalqalah_kubra_condition(text, pos) ==
    IF pos + 1 >= Len(text) THEN Pure(FALSE)
    ELSE After({pos},
               AND(Pure(At(text, pos) \in qalqalah_letters),
                   AND(Pure(pos + 1 < Len(text)),
                       AND(Is(text, pos + 1, "sukun"),
                           OR(Pure(pos + 2 >= Len(text)),
                              SpaceAt(text, pos + 2))))))

qalqalah_wusta_condition(text, pos) ==
    IF pos + 2 >= Len(text) THEN Pure(FALSE)
    ELSE After({pos},
               AND(Pure(At(text, pos) \in qalqalah_letters),
                   AND(Pure(pos + 1 < Len(text)),
                       AND(Is(text, pos + 1, "sukun"),
                           AND(Pure(pos + 2 < Len(text)),
                               NOT(SpaceAt(text, pos + 2)))))))

\* 6. tafkhim and tarqeeq
\* Mutant of tafkhim_daim_condition: a heavy letter carrying a kasra is
\* taken to be light.
tafkhim_daim_condition_unless_kasra(text, pos) ==
    IF pos >= Len(text) THEN Pure(FALSE)
    ELSE AND(In(text, pos, always_heavy),
             NOT(AND(Pure(pos + 1 < Len(text)), Is(text, pos + 1, "kasra"))))

tafkhim_daim_condition(text, pos) ==
    IF pos >= Len(text) THEN Pure(FALSE)
    ELSE In(text, pos, always_heavy)

\* Mutant of ra_condition: the vowel before a sukun is looked for on the
\* letter that carries the sukun, three offsets back.
ra_condition_across_letter(text, pos, vowels) ==
    LET guard == OR(Pure(pos >= Len(text)), NOT(Is(text, pos, "ra")))
        before == IF pos > 0
                  THEN OR(In(text, pos - 1, vowels),
                          AND(Is(text, pos - 1, "sukun"),
                              AND(Pure(pos > 2), In(text, pos - 3, vowels))))
                  ELSE Pure(FALSE)
        after == AND(Pure(pos + 1 < Len(text)), In(text, pos + 1, vowels))
    IN  IF guard.m THEN Res(FALSE, guard.rd)
        ELSE After(guard.rd, OR(before, after))

\* The ra predicates: the vowel class that makes the ra heavy or light.
ra_condition(text, pos, vowels) ==
    LET guard == OR(Pure(pos >= Len(text)), NOT(Is(text, pos, "ra")))
        before == IF pos > 0
                  THEN OR(In(text, pos - 1, vowels),
                          AND(Is(text, pos - 1, "sukun"),
                              AND(Pure(pos > 1), In(text, pos - 2, vowels))))
                  ELSE Pure(FALSE)
        after == AND(Pure(pos + 1 < Len(text)), In(text, pos + 1, vowels))
    IN  IF guard.m THEN Res(FALSE, guard.rd)
        ELSE After(guard.rd, OR(before, after))

tafkhim_ra_condition(text, pos) == ra_condition(text, pos, {"fatha", "damma"})

tarqeeq_ra_condition(text, pos) == ra_condition(text, pos, {"kasra"})

\* The three literals the lam of "Allah" is compared with: four characters each.
LamAllahForms ==
    { <<"lam", "fatha", "shadda", "ha">>,
      <<"lam", "fatha", "alif_khanjariya", "ha">>,
      <<"lam", "shadda", "fatha", "ha">> }

tafkhim_lam_allah_condition(text, pos) ==
    LET guard == OR(Pure(pos + 2 >= Len(text)), NOT(Is(text, pos, "lam")))
    IN  IF guard.m THEN Res(FALSE, guard.rd)
        ELSE Res(Slice(text, pos, pos + 3) \in LamAllahForms,
                 guard.rd \cup {pos, pos + 1, pos + 2})

\* 7. ghunnah
ghunnah_mushaddad_condition(text, pos) ==
    IF pos + 1 >= Len(text) THEN Pure(FALSE)
    ELSE AND(In(text, pos, ghunnah_letters), Is(text, pos + 1, "shadda"))

\* 8. additional sifa rules
hams_condition(text, pos) ==
    IF pos >= Len(text) THEN Pure(FALSE) ELSE In(text, pos, hams_letters)

\* Mutant of jahr_condition: the voiced letters are taken to be the
\* complement of the whispered letters.
jahr_condition_by_complement(text, pos) ==
    IF pos >= Len(text) THEN Pure(FALSE)
    ELSE NOT(In(text, pos, hams_letters))

jahr_condition(text, pos) ==
    IF pos >= Len(text) THEN Pure(FALSE) ELSE In(text, pos, jahr_letters)

safeer_condition(text, pos) ==
    IF pos >= Len(text) THEN Pure(FALSE) ELSE In(text, pos, safeer_letters)

\* ------------------------------------------------------------- rule catalog
TajweedRule(name, category, sifa_output, duration) ==
    [name |-> name, category |-> category, pattern |-> "",
     sifa_output |-> sifa_output, duration |-> duration]

\* self.tajweed_rules in the order _init_tajweed_rules appends them; a
\* category is written by the name of its TajweedRuleCategory member.
tajweed_rules ==
    << TajweedRule("izhaar_halqi", "IZHAAR", SifaAttributes.IZHAAR, 1),
       TajweedRule("idgham_bi_ghunnah", "IDGHAM",
                   SifaAttributes.IDGHAM \o SifaAttributes.GUNNAH, 2),
       TajweedRule("idgham_bila_ghunnah", "IDGHAM", SifaAttributes.IDGHAM, 1),
       TajweedRule("iqlab", "IQLAB",
                   SifaAttributes.IQLAB \o SifaAttributes.GUNNAH, 2),
       TajweedRule("ikhfaa", "IKHFAA",
                   SifaAttributes.IKHFAA \o SifaAttributes.GUNNAH, 2),
       TajweedRule("ikhfaa_shafawi", "IKHFAA",
                   SifaAttributes.IKHFAA \o SifaAttributes.SHAFWI, 2),
       TajweedRule("idgham_shafawi", "IDGHAM",
                   SifaAttributes.IDGHAM \o SifaAttributes.SHAFWI, 2),
       TajweedRule("izhaar_shafawi", "IZHAAR",
                   SifaAttributes.IZHAAR \o SifaAttributes.SHAFWI, 1),
       TajweedRule("lam_shamsiyyah", "LAM_DEFINITE", SifaAttributes.IDGHAM, 2),
       TajweedRule("lam_qamariyyah", "LAM_DEFINITE", SifaAttributes.IZHAAR, 1),
       TajweedRule("madd_tabii", "MADD", SifaAttributes.DUR_2, 2),
       TajweedRule("madd_wajib_muttasil", "MADD", SifaAttributes.DUR_5, 5),
       TajweedRule("madd_jaiz_munfasil", "MADD", SifaAttributes.DUR_4, 4),
       TajweedRule("madd_lazim", "MADD", SifaAttributes.DUR_6, 6),
       TajweedRule("madd_lin", "MADD", SifaAttributes.DUR_4, 4),
       TajweedRule("qalqalah_kubra", "QALQALAH",
                   SifaAttributes.QALQALAH \o "!", 2),
       TajweedRule("qalqalah_wusta", "QALQALAH", SifaAttributes.QALQALAH, 1),
       TajweedRule("tafkhim_daim", "TAFKHIM", SifaAttributes.TAFKHIM, 1),
       TajweedRule("tafkhim_ra", "TAFKHIM", SifaAttributes.TAFKHIM, 1),
       TajweedRule("tarqeeq_ra", "TARQEEQ", SifaAttributes.TARQEEQ, 1),
       TajweedRule("tafkhim_lam_allah", "TAFKHIM", SifaAttributes.TAFKHIM, 1),
       TajweedRule("ghunnah_mushaddad", "GUNNAH",
                   SifaAttributes.GUNNAH \o "U+02D0", 3),
       TajweedRule("hams", "HAMS", SifaAttributes.HAMS, 1),
       TajweedRule("jahr", "JAHR", SifaAttributes.JAHR, 1),
       TajweedRule("safeer", "SAFEER", SifaAttributes.SAFEER, 1) >>

\* rule.condition_func(text, position, context) of the rule of that name.
condition_func(name, text, pos) ==
    CASE name = "izhaar_halqi" -> izhaar_condition(text, pos)
      [] name = "idgham_bi_ghunnah" -> idgham_bi_ghunnah_condition(text, pos)
      [] name = "idgham_bila_ghunnah" -> idgham_bila_ghunnah_condition(text, pos)
      [] name = "iqlab" -> iqlab_condition(text, pos)
      [] name = "ikhfaa" -> ikhfaa_condition(text, pos)
      [] name = "ikhfaa_shafawi" -> ikhfaa_shafawi_condition(text, pos)
      [] name = "idgham_shafawi" -> idgham_shafawi_condition(text, pos)
      [] name = "izhaar_shafawi" -> izhaar_shafawi_condition(text, pos)
      [] name = "lam_shamsiyyah" -> lam_shamsiyyah_condition(text, pos)
      [] name = "lam_qamariyyah" -> lam_qamariyyah_condition(text, pos)
      [] name = "madd_tabii" -> madd_tabii_condition(text, pos)
      [] name = "madd_wajib_muttasil" -> madd_wajib_muttasil_condition(text, pos)
      [] name = "madd_jaiz_munfasil" -> madd_jaiz_munfasil_condition(text, pos)
      [] name = "madd_lazim" -> madd_lazim_condition(text, pos)
      [] name = "madd_lin" -> madd_lin_condition(text, pos)
      [] name = "qalqalah_kubra" -> qalqalah_kubra_condition(text, pos)
      [] name = "qalqalah_wusta" -> qalqalah_wusta_condition(text, pos)
      [] name = "tafkhim_daim" -> tafkhim_daim_condition(text, pos)
      [] name = "tafkhim_ra" -> tafkhim_ra_condition(text, pos)
      [] name = "tarqeeq_ra" -> tarqeeq_ra_condition(text, pos)
      [] name = "tafkhim_lam_allah" -> tafkhim_lam_allah_condition(text, pos)
      [] name = "ghunnah_mushaddad" -> ghunnah_mushaddad_condition(text, pos)
      [] name = "hams" -> hams_condition(text, pos)
      [] name = "jahr" -> jahr_condition(text, pos)
      [] name = "safeer" -> safeer_condition(text, pos)

\* TajweedRule.matches: every rule of the catalog carries a condition_func.
matches(rule, text, pos) == condition_func(rule.name, text, pos).m

\* ------------------------------------------------------------- priorities
\* self.rule_priority: category -> weight (higher wins).
rule_priority ==
    [ MADD |-> 100, NOON_SAKINAH |-> 90, MEEM_SAKINAH |-> 90, IQLAB |-> 85,
      IDGHAM |-> 80, IKHFAA |-> 75, IZHAAR |-> 70, QALQALAH |-> 60,
      GUNNAH |-> 50, TAFKHIM |-> 40, TARQEEQ |-> 40, LAM_DEFINITE |-> 30,
      HAMS |-> 20, JAHR |-> 20 ]

\* self.rule_conflicts: rule name -> names it is checked against.
rule_conflicts ==
    [ idgham_bi_ghunnah |-> <<"izhaar_halqi", "ikhfaa">>,
      idgham_bila_ghunnah |-> <<"izhaar_halqi", "ikhfaa">>,
      iqlab |-> <<"izhaar_halqi", "ikhfaa", "idgham">>,
      ikhfaa |-> <<"izhaar_halqi", "idgham">> ]

\* __init__: the engine object once its tables are built.
NewEngine(qiraat) ==
    [constructed |-> TRUE, qiraat |-> qiraat, tajweed_rules |-> tajweed_rules,
     rule_priority |-> rule_priority, rule_conflicts |-> rule_conflicts]

NoEngine == [constructed |-> FALSE]

\* ------------------------------------------------------------- normalizer
\* Mutant of re_sub: only the first occurrence is replaced (count=1).
RECURSIVE re_sub_first(_, _, _)
re_sub_first(chars, repl, text) ==
    IF text = <<>> THEN <<>>
    ELSE IF Head(text) \in chars THEN repl \o Tail(text)
    ELSE <<Head(text)>> \o re_sub_first(chars, repl, Tail(text))

\* re.sub(r'[chars]', repl, text): every occurrence is replaced.
RECURSIVE re_sub(_, _, _)
re_sub(chars, repl, text) ==
    IF text = <<>> THEN <<>>
    ELSE (IF Head(text) \in chars THEN repl ELSE <<Head(text)>>)
         \o re_sub(chars, repl, Tail(text))

AlifVariants == {"alif_with_kasra", "alif_with_fatha", "alif_wasl", "alif_madd"}

normalize_arabic(text) ==
    LET t1 == re_sub({"tatweel"}, <<>>, text)
        t2 == re_sub(AlifVariants, <<"alif">>, t1)
    IN  re_sub({"ta_marbuta"}, <<"ha">>, t2)

\* ------------------------------------------------------------- context
get_letter_context(text, pos) ==
    [ current |-> IF pos < Len(text) THEN At(text, pos) ELSE "",
      prev |-> IF pos > 0 THEN At(text, pos - 1) ELSE "",
      next |-> IF pos + 1 < Len(text) THEN At(text, pos + 1) ELSE "",
      prev_prev |-> IF pos > 1 THEN At(text, pos - 2) ELSE "",
      next_next |-> IF pos + 2 < Len(text) THEN At(text, pos + 2) ELSE "",
      is_word_start |-> pos = 0 \/ isspace(At(text, pos - 1)),
      is_word_end |-> pos = Len(text) - 1
                      \/ (pos + 1 < Len(text) /\ isspace(At(text, pos + 1))),
      is_verse_end |-> pos = Len(text) - 1,
      has_sukun |-> pos + 1 < Len(text) /\ At(text, pos + 1) = "sukun",
      has_shadda |-> pos + 1 < Len(text) /\ At(text, pos + 1) = "shadda",
      vowel |-> IF pos + 1 < Len(text)
                   /\ At(text, pos + 1) \in {"fatha", "kasra", "damma"}
                THEN At(text, pos + 1) ELSE "" ]

\* The text offsets get_letter_context subscripts.
context_reads(text, pos) ==
    (IF pos < Len(text) THEN {pos} ELSE {})
    \cup (IF pos > 0 THEN {pos - 1} ELSE {})
    \cup (IF pos + 1 < Len(text) THEN {pos + 1} ELSE {})
    \cup (IF pos > 1 THEN {pos - 2} ELSE {})
    \cup (IF pos + 2 < Len(text) THEN {pos + 2} ELSE {})
    \cup OR(Pure(pos = 0), SpaceAt(text, pos - 1)).rd
    \cup OR(Pure(pos = Len(text) - 1),
            AND(Pure(pos + 1 < Len(text)), SpaceAt(text, pos + 1))).rd
    \cup AND(Pure(pos + 1 < Len(text)), Is(text, pos + 1, "sukun")).rd
    \cup AND(Pure(pos + 1 < Len(text)), Is(text, pos + 1, "shadda")).rd

\* ------------------------------------------------------------- resolver
Range(f) == {f[k] : k \in DOMAIN f}

\* key=lambda r: self.rule_priority.get(r.category, 0)
priority_key(self, rule) ==
    IF rule.category \in DOMAIN self.rule_priority
    THEN self.rule_priority[rule.category]
    ELSE 0

\* Mutant of sort_by_priority: the list is sorted ascending and then
\* reversed, which reverses the catalog order of rules of equal key.
RECURSIVE sort_then_reverse(_, _)
sort_then_reverse(self, rules) ==
    IF rules = <<>> THEN <<>>
    ELSE LET top == CHOOSE k \in {priority_key(self, r) : r \in Range(rules)} :
                        \A r \in Range(rules) : priority_key(self, r) <= k
             first(r) == priority_key(self, r) = top
             rest(r) == priority_key(self, r) # top
             ties == SelectSeq(rules, first)
         IN  [k \in 1..Len(ties) |-> ties[Len(ties) + 1 - k]]
             \o sort_then_reverse(self, SelectSeq(rules, rest))

\* list.sort(key=..., reverse=True): descending by key, and stable (rules of
\* equal key keep their catalog order).
RECURSIVE sort_by_priority(_, _)
sort_by_priority(self, rules) ==
    IF rules = <<>> THEN <<>>
    ELSE LET top == CHOOSE k \in {priority_key(self, r) : r \in Range(rules)} :
                        \A r \in Range(rules) : priority_key(self, r) <= k
             first(r) == priority_key(self, r) = top
             rest(r) == priority_key(self, r) # top
         IN  SelectSeq(rules, first)
             \o sort_by_priority(self, SelectSeq(rules, rest))

\* The matching rules of a position, in catalog order.
matching_rules(self, text, pos) ==
    LET hit(rule) == matches(rule, text, pos)
    IN  SelectSeq(self.tajweed_rules, hit)

\* any(c in [r.name for r in applications] for c in conflict_rules)
in_conflict(self, rule, applications) ==
    /\ rule.name \in DOMAIN self.rule_conflicts
    /\ \E c \in Range(self.rule_conflicts[rule.name]) :
          \E a \in Range(applications) : a.rule_name = c

\* Mutant of category_free: the category of an accepted rule is not looked at.
category_never_checked(rule, applied_categories) == TRUE

\* A rule passes this test when no rule of its category was accepted yet.
category_free(rule, applied_categories) ==
    rule.category \notin applied_categories

\* Mutant of modify_phoneme: the category (an enum member) is compared with
\* the category's value string, which is never equal to it.
modify_phoneme_by_value(rule, modified_phoneme) ==
    IF rule.category = TajweedRuleCategory.IQLAB THEN "m"
    ELSE IF rule.category = TajweedRuleCategory.IDGHAM
            /\ rule.name = "idgham_bi_ghunnah" THEN ""
    ELSE modified_phoneme

\* Mutant of modify_phoneme: every rule of category IDGHAM empties the
\* phoneme, whatever its name.
modify_phoneme_any_idgham(rule, modified_phoneme) ==
    IF rule.category = "IQLAB" THEN "m"
    ELSE IF rule.category = "IDGHAM" THEN ""
    ELSE modified_phoneme

\* The phoneme after a rule is accepted.
modify_phoneme(rule, modified_phoneme) ==
    IF rule.category = "IQLAB" THEN "m"
    ELSE IF rule.category = "IDGHAM" /\ rule.name = "idgham_bi_ghunnah" THEN ""
    ELSE modified_phoneme

\* One iteration of "for rule in matching_rules" on the loop's locals.
apply_rule(self, rule, text, pos, context, st) ==
    IF in_conflict(self, rule, st.applications) THEN st
    ELSE IF category_free(rule, st.applied_categories)
    THEN LET after == modify_phoneme(rule, st.modified_phoneme)
             application ==
                 [rule_name |-> rule.name,
                  category |-> TajweedRuleCategory[rule.category],
                  position |-> pos,
                  arabic_char |-> At(text, pos),
                  phoneme_before |-> st.modified_phoneme,
                  phoneme_after |-> after,
                  sifa_applied |-> rule.sifa_output,
                  duration |-> rule.duration,
                  context |-> context]
         IN  [applications |-> Append(st.applications, application),
              modified_phoneme |-> after,
              applied_categories |-> st.applied_categories \cup {rule.category}]
    ELSE st

RECURSIVE apply_loop(_, _, _, _, _, _)
apply_loop(self, rules, text, pos, context, st) ==
    IF rules = <<>> THEN st
    ELSE apply_loop(self, Tail(rules), text, pos, context,
                    apply_rule(self, Head(rules), text, pos, context, st))

\* Mutant of apply_rules_at_position: the rules are run on the normalized
\* text, whose offsets are not those of the original text.
apply_rules_on_normalized(self, text, pos, current_phoneme, context) ==
    LET folded == normalize_arabic(text)
        sorted == sort_by_priority(self, matching_rules(self, folded, pos))
        st == apply_loop(self, sorted, folded, pos, context,
                         [applications |-> <<>>,
                          modified_phoneme |-> current_phoneme,
                          applied_categories |-> {}])
    IN  [modified_phoneme |-> st.modified_phoneme,
         applications |-> st.applications]

\* Returns modified_phoneme and applications.
apply_rules_at_position(self, text, pos, current_phoneme, context) ==
    LET sorted == sort_by_priority(self, matching_rules(self, text, pos))
        st == apply_loop(self, sorted, text, pos, context,
                         [applications |-> <<>>,
                          modified_phoneme |-> current_phoneme,
                          applied_categories |-> {}])
    IN  [modified_phoneme |-> st.modified_phoneme,
         applications |-> st.applications]

\* Every text offset one loop iteration of process_text subscripts at i:
\* the character itself, the context, and every rule predicate (the rules
\* are only evaluated at a non-whitespace character).
reads_at(self, text, i) ==
    {i} \cup context_reads(text, i)
    \cup (IF isspace(At(text, i)) THEN {}
          ELSE UNION {condition_func(r.name, text, i).rd :
                        r \in Range(self.tajweed_rules)})

raises_IndexError(text, rd) ==
    \E k \in rd : k >= Len(text) \/ k < 0 - Len(text)

\* ------------------------------------------------------------- attribute join
\* The distinct elements of a list, in first-seen order.
RECURSIVE distinct(_)
distinct(seq) ==
    IF seq = <<>> THEN <<>>
    ELSE LET init == distinct(SubSeq(seq, 1, Len(seq) - 1))
             last == seq[Len(seq)]
         IN  IF last \in Range(init) THEN init ELSE Append(init, last)

Reverse(seq) == [k \in 1..Len(seq) |-> seq[Len(seq) + 1 - k]]

RECURSIVE join(_)
join(seq) == IF seq = <<>> THEN "" ELSE Head(seq) \o join(Tail(seq))

\* Iteration orders of a set of str: the order follows the string hashes,
\* which are salted per process.  Two of the orders a build can yield.
HashOrders == {"first_seen", "last_seen"}

set_order(seq, hash_order) ==
    IF hash_order = "first_seen" THEN distinct(seq) ELSE Reverse(distinct(seq))

\* Mutant of combine_sifa: the list is joined as it is, duplicates included.
combine_sifa_without_set(sifa_attrs, hash_order) ==
    IF sifa_attrs # <<>> THEN join(sifa_attrs) ELSE "_"

\* ''.join(set(sifa_attrs)), or '_' for an empty list.
combine_sifa(sifa_attrs, hash_order) ==
    IF sifa_attrs # <<>> THEN join(set_order(sifa_attrs, hash_order)) ELSE "_"

\* Mutant of loop_continues: the loop runs once more, at the end of the text.
loop_continues_inclusive(idx, text) == idx <= Len(text)

\* while i < len(arabic_text)
loop_continues(idx, text) == idx < Len(text)

\* Mutant of advance: the duration is used as a skip distance.
advance_by_duration(idx, max_duration) == idx + max_duration

\* i += 1 at the end of an iteration, whatever the duration.
advance(idx, max_duration) == idx + 1

\* max([app.duration for app in applications]) if applications else 1
RECURSIVE max_of(_)
max_of(seq) ==
    IF Len(seq) = 1 THEN seq[1]
    ELSE LET m == max_of(Tail(seq)) IN IF seq[1] >= m THEN seq[1] ELSE m

\* Mutant of max_duration: the duration of the first application, the one of
\* the highest priority, is taken.
max_duration_of_first(applications) ==
    IF applications # <<>> THEN applications[1].duration ELSE 1

max_duration(applications) ==
    IF applications # <<>>
    THEN max_of([k \in 1..Len(applications) |-> applications[k].duration])
    ELSE 1

\* ------------------------------------------------------------- result API
\* QPSResult.get_detailed_breakdown: one entry per element of the zipped
\* sequences; pos starts at 0 and grows by the duration of each entry, and
\* the character is read from the normalized text at the entry's index.
get_detailed_breakdown(self) ==
    LET lens == {Len(self.phoneme_sequence), Len(self.sifa_sequence),
                 Len(self.duration_sequence)}
        n == CHOOSE m \in lens : \A l \in lens : m <= l
        pos[k \in 0..n] ==
            IF k = 0 THEN 0 ELSE pos[k - 1] + self.duration_sequence[k]
        here(k) ==
            LET at_k(r) == r.position = k
                hits == SelectSeq(self.rule_applications, at_k)
            IN  [j \in 1..Len(hits) |-> hits[j].rule_name]
    IN  [k \in 1..n |->
           [position |-> pos[k - 1],
            arabic |-> IF k - 1 < Len(self.normalized_text)
                       THEN self.normalized_text[k] ELSE "",
            phoneme |-> self.phoneme_sequence[k],
            sifa |-> IF self.sifa_sequence[k] # "" THEN self.sifa_sequence[k]
                     ELSE "None",
            duration |-> self.duration_sequence[k],
            rules |-> here(k - 1)]]

\* ------------------------------------------------------------- state
VARIABLES
    engine,             \* the GenericQuranPhoneticScript object
    arabic_text,        \* the argument of process_text
    hash_order,         \* this process's iteration order of str sets
    pc,                 \* "new", "idle", "scan", "done" or "IndexError"
    normalized,         \* locals of process_text ...
    i,
    position,
    phoneme_sequence,
    sifa_sequence,
    duration_sequence,
    rule_applications,
    word_boundaries,
    result,             \* the QPSResult returned
    previous            \* the QPSResult of the preceding run on this text

vars == <<engine, arabic_text, hash_order, pc, normalized, i, position,
          phoneme_sequence, sifa_sequence, duration_sequence,
          rule_applications, word_boundaries, result, previous>>

locals == <<normalized, i, position, phoneme_sequence, sifa_sequence,
            duration_sequence, rule_applications, word_boundaries>>

NoResult == [returned |-> FALSE]

\* The strings of at most n characters over an alphabet.
Texts(alphabet, n) == UNION {[1..k -> alphabet] : k \in 0..n}

\* The characters the input texts of Spec are drawn from: the noon/tanween
\* triggers with one letter of each class that can follow them (throat,
\* idgham with and without ghunnah, iqlab, ikhfaa), two echo letters, a long
\* vowel with hamza, sukun and shadda, and whitespace.
Alphabet ==
    {"noon", "tanween_damm", "hamza", "ra", "ba", "dal", "alif", "sukun",
     "shadda", " "}

\* The characters of SpecNorm: every character the normalizer rewrites,
\* the two it rewrites to, whitespace and a character outside every table.
NormAlphabet ==
    {"tatweel", "alif_madd", "alif_with_fatha", "alif_wasl", "ta_marbuta",
     "alif", "ha", " ", "x"}

\* The characters of SpecRuns.
RunsAlphabet == {"noon", "ba", "sad", "alif", "sukun", " "}

\* The state before the engine is constructed, for a set of input texts.
InitWith(texts) ==
    /\ engine = NoEngine
    /\ arabic_text \in texts
    /\ hash_order \in HashOrders
    /\ pc = "new"
    /\ normalized = <<>>
    /\ i = 0
    /\ position = 0
    /\ phoneme_sequence = <<>>
    /\ sifa_sequence = <<>>
    /\ duration_sequence = <<>>
    /\ rule_applications = <<>>
    /\ word_boundaries = <<>>
    /\ result = NoResult
    /\ previous = NoResult

InitOver(alphabet) == InitWith(Texts(alphabet, MaxLen))

Init == InitOver(Alphabet)

\* ------------------------------------------------------------- operations
\* GenericQuranPhoneticScript(qiraat="hafs")
Construct ==
    /\ pc = "new"
    /\ engine' = NewEngine("hafs")
    /\ pc' = "idle"
    /\ UNCHANGED <<arabic_text, hash_order, locals, result, previous>>

\* Mutant of ProcessText: the log is kept on the engine and never emptied,
\* so a call appends to the log of the calls before it.
ProcessText_keeps_log ==
    /\ pc = "idle"
    /\ normalized' = normalize_arabic(arabic_text)
    /\ word_boundaries' =
          LET ws(j) == isspace(At(normalized', j))
          IN  SelectSeq([k \in 1..Len(normalized') |-> k - 1], ws)
    /\ i' = 0
    /\ position' = 0
    /\ phoneme_sequence' = <<>>
    /\ sifa_sequence' = <<>>
    /\ duration_sequence' = <<>>
    /\ pc' = "scan"
    /\ UNCHANGED <<engine, arabic_text, hash_order, result, previous,
                   rule_applications>>

\* process_text up to the scan loop: normalize, word boundaries, empty lists.
ProcessText ==
    /\ pc = "idle"
    /\ normalized' = normalize_arabic(arabic_text)
    /\ word_boundaries' =
          LET ws(j) == isspace(At(normalized', j))
          IN  SelectSeq([k \in 1..Len(normalized') |-> k - 1], ws)
    /\ i' = 0
    /\ position' = 0
    /\ phoneme_sequence' = <<>>
    /\ sifa_sequence' = <<>>
    /\ duration_sequence' = <<>>
    /\ rule_applications' = <<>>
    /\ pc' = "scan"
    /\ UNCHANGED <<engine, arabic_text, hash_order, result, previous>>

\* One iteration of the scan loop at a whitespace character.
ScanSpace ==
    /\ pc = "scan"
    /\ loop_continues(i, arabic_text)
    /\ isspace(At(arabic_text, i))
    /\ IF raises_IndexError(arabic_text, reads_at(engine, arabic_text, i))
       THEN /\ pc' = "IndexError"
            /\ UNCHANGED locals
       ELSE /\ phoneme_sequence' = Append(phoneme_sequence, " ")
            /\ sifa_sequence' = Append(sifa_sequence, " ")
            /\ duration_sequence' = Append(duration_sequence, 1)
            /\ i' = i + 1
            /\ position' = position + 1
            /\ UNCHANGED <<pc, normalized, rule_applications, word_boundaries>>
    /\ UNCHANGED <<engine, arabic_text, hash_order, result, previous>>

\* One iteration of the scan loop at any other character.
ScanChar ==
    /\ pc = "scan"
    /\ loop_continues(i, arabic_text)
    /\ ~isspace(At(arabic_text, i))
    /\ IF raises_IndexError(arabic_text, reads_at(engine, arabic_text, i))
       THEN /\ pc' = "IndexError"
            /\ UNCHANGED locals
       ELSE LET char == At(arabic_text, i)
                context == get_letter_context(arabic_text, i)
                known == char \in DOMAIN reverse_phoneme_map
                base_phoneme ==
                    IF known THEN reverse_phoneme_map[char].phoneme ELSE char
                base_sifa ==
                    IF known THEN reverse_phoneme_map[char].sifa ELSE <<>>
                applied == apply_rules_at_position(engine, arabic_text, i,
                                                   base_phoneme, context)
                applications == applied.applications
                sifa_attrs ==
                    base_sifa
                    \o [k \in 1..Len(applications) |->
                          applications[k].sifa_applied]
                md == max_duration(applications)
            IN  /\ rule_applications' = rule_applications \o applications
                /\ phoneme_sequence' =
                      Append(phoneme_sequence, applied.modified_phoneme)
                /\ sifa_sequence' =
                      Append(sifa_sequence, combine_sifa(sifa_attrs, hash_order))
                /\ duration_sequence' = Append(duration_sequence, md)
                /\ i' = advance(i, md)
                /\ position' = position + md
                /\ UNCHANGED <<pc, normalized, word_boundaries>>
    /\ UNCHANGED <<engine, arabic_text, hash_order, result, previous>>

\* The loop ends: the QPSResult is built and returned.
Return ==
    /\ pc = "scan"
    /\ ~loop_continues(i, arabic_text)
    /\ result' =
          [returned |-> TRUE,
           original_text |-> arabic_text,
           normalized_text |-> normalized,
           phoneme_sequence |-> phoneme_sequence,
           sifa_sequence |-> sifa_sequence,
           duration_sequence |-> duration_sequence,
           rule_applications |-> rule_applications,
           word_boundaries |-> word_boundaries,
           metadata |->
              [qiraat |-> engine.qiraat,
               char_count |-> Len(arabic_text),
               rule_count |-> Len(rule_applications),
               unique_rules |->
                  Cardinality({a.rule_name : a \in Range(rule_applications)})]]
    /\ pc' = "done"
    /\ UNCHANGED <<engine, arabic_text, hash_order, locals, previous>>

Next == Construct \/ ProcessText \/ ScanSpace \/ ScanChar \/ Return

Spec == Init /\ [][Next]_vars

\* The same program over the normalizer's characters.
InitNorm == InitOver(NormAlphabet)

SpecNorm == InitNorm /\ [][Next]_vars

\* The program is run a second time on the same text: a new process, with
\* its own string hashing, constructs a new engine; the first run's result
\* is kept for comparison.
SecondRun ==
    /\ pc = "done"
    /\ ~previous.returned
    /\ previous' = result
    /\ hash_order' \in HashOrders
    /\ engine' = NoEngine
    /\ pc' = "new"
    /\ normalized' = <<>>
    /\ i' = 0
    /\ position' = 0
    /\ phoneme_sequence' = <<>>
    /\ sifa_sequence' = <<>>
    /\ duration_sequence' = <<>>
    /\ rule_applications' = <<>>
    /\ word_boundaries' = <<>>
    /\ result' = NoResult
    /\ UNCHANGED arabic_text

InitRuns == InitOver(RunsAlphabet)

NextRuns == Next \/ SecondRun

SpecRuns == InitRuns /\ [][NextRuns]_vars

\* The same program over the characters of the definite article: alif, lam,
\* a sun letter, a moon letter and whitespace.
ArticleAlphabet == {"alif", "lam", "ta", "ba", " "}

InitArticle == InitWith(Texts(ArticleAlphabet, MaxArticleLen))

SpecArticle == InitArticle /\ [][Next]_vars

\* The same program over always-heavy letters (an echo letter, a whistling
\* letter and a throat letter among them), with noon, sukun, kasra and
\* whitespace as their neighbours.
HeavyAlphabet == {"qaf", "sad", "kha", "noon", "sukun", "kasra", " "}

InitHeavy == InitOver(HeavyAlphabet)

SpecHeavy == InitHeavy /\ [][Next]_vars

\* The same program over the characters of the madd rules: two long-vowel
\* letters, hamza, sukun, shadda, a letter of none of these classes and
\* whitespace.
MaddAlphabet == {"alif", "waw", "hamza", "sukun", "shadda", "ba", " "}

InitMadd == InitOver(MaddAlphabet)

SpecMadd == InitMadd /\ [][Next]_vars

\* The same program over letters of the per-letter classes and their marks:
\* meem, ra, a whispered letter, a whistling heavy letter, a long-vowel
\* letter, sukun, kasra, fatha and whitespace.
SifatAlphabet ==
    {"meem", "ra", "ha", "sad", "waw", "sukun", "kasra", "fatha", " "}

InitSifat == InitOver(SifatAlphabet)

SpecSifat == InitSifat /\ [][Next]_vars

\* The same program over the characters of the rules that may change the
\* phoneme: noon before ba, noon, meem or ra, and meem with sukun.
PhonemeAlphabet == {"noon", "ba", "ra", "meem", "sukun", " "}

InitPhoneme == InitOver(PhonemeAlphabet)

SpecPhoneme == InitPhoneme /\ [][Next]_vars

\* The same program over texts longer than a window: ra with kasra and
\* sukun, a letter that carries them, and whitespace.
WindowAlphabet == {"ra", "noon", "kasra", "sukun", " "}

InitWindow == InitWith(Texts(WindowAlphabet, MaxWindowLen))

SpecWindow == InitWindow /\ [][Next]_vars

\* Several calls on one engine, in one process.  process_text is called
\* directly or by extract_rules_only or format_rule_extraction, whose only
\* use of the engine is that call.  After the first call has returned, a
\* second call is made with another text, and then a third with the text of
\* the first; the first call's result is kept for comparison.
CallsAlphabet == {"noon", "ba", " "}

InitCalls == InitWith(Texts(CallsAlphabet, MaxCallLen))

CallOther ==
    /\ pc = "done"
    /\ ~previous.returned
    /\ previous' = result
    /\ arabic_text' \in Texts(CallsAlphabet, MaxCallLen) \ {arabic_text}
    /\ result' = NoResult
    /\ pc' = "idle"
    /\ UNCHANGED <<engine, hash_order, locals>>

CallAgain ==
    /\ pc = "done"
    /\ previous.returned
    /\ arabic_text # previous.original_text
    /\ arabic_text' = previous.original_text
    /\ result' = NoResult
    /\ pc' = "idle"
    /\ UNCHANGED <<engine, hash_order, locals, previous>>

NextCalls == Next \/ CallOther \/ CallAgain

SpecCalls == InitCalls /\ [][NextCalls]_vars

\* ------------------------------------------------------------- properties
\* The offsets whose loop iteration has completed.
Scanned == IF pc \in {"scan", "done"} THEN 0..(i - 1) ELSE {}

\* Rule `name` is in the log at offset p.
Accepted(p, name) ==
    \E a \in Range(rule_applications) : a.position = p /\ a.rule_name = name

\* The character at offset p, or "" past the end of the text.
CharAt(p) == IF p >= 0 /\ p < Len(arabic_text) THEN arabic_text[p + 1] ELSE ""

\* C1: the phoneme, sifa and duration sequences of a returned result each
\* have exactly len(text) entries, whitespace positions included (and inside
\* the loop each holds one entry per offset already visited).
LengthInvariant ==
    /\ pc = "scan" =>
          /\ Len(phoneme_sequence) = i
          /\ Len(sifa_sequence) = i
          /\ Len(duration_sequence) = i
    /\ pc = "done" =>
          /\ Len(result.phoneme_sequence) = Len(arabic_text)
          /\ Len(result.sifa_sequence) = Len(arabic_text)
          /\ Len(result.duration_sequence) = Len(arabic_text)
          /\ result.original_text = arabic_text

\* A returned result for a text with whitespace and with a duration above 1.
LengthWitness ==
    /\ pc = "done"
    /\ Len(arabic_text) >= 2
    /\ \E k \in 1..Len(arabic_text) : isspace(arabic_text[k])
    /\ \E k \in 1..Len(arabic_text) : result.duration_sequence[k] > 1

\* C2: the log holds at most one accepted application per category at any
\* one position.
CategoryExclusivity ==
    \A j, k \in 1..Len(rule_applications) :
        (/\ rule_applications[j].position = rule_applications[k].position
         /\ rule_applications[j].category = rule_applications[k].category)
        => j = k

\* A scanned position at which two rules of one category matched.
CategoryWitness ==
    \E q \in Scanned :
        \E r1, r2 \in Range(tajweed_rules) :
            /\ r1.name # r2.name
            /\ r1.category = r2.category
            /\ matches(r1, arabic_text, q)
            /\ matches(r2, arabic_text, q)
            /\ Accepted(q, r1.name)

\* C3: where idgham_bi_ghunnah, idgham_bila_ghunnah or iqlab is accepted,
\* neither izhaar_halqi nor ikhfaa is accepted.
ConflictSuppression ==
    \A q \in Scanned :
        (\E n \in {"idgham_bi_ghunnah", "idgham_bila_ghunnah", "iqlab"} :
            Accepted(q, n))
        => (~Accepted(q, "izhaar_halqi") /\ ~Accepted(q, "ikhfaa"))

\* A log in which iqlab and one of the two idgham rules were both accepted.
ConflictWitness ==
    /\ \E q \in Scanned : Accepted(q, "iqlab")
    /\ \E q \in Scanned :
          Accepted(q, "idgham_bi_ghunnah") \/ Accepted(q, "idgham_bila_ghunnah")

\* C4: a second run of the program on the same text returns the same
\* attribute string at every position as the first run did.
Determinism ==
    (pc = "done" /\ previous.returned)
    => result.sifa_sequence = previous.sifa_sequence

\* C5: normalizing the normalized text changes nothing, and the normalized
\* text holds no tatweel, alif variant or ta marbuta.
NormalizationIdempotent ==
    pc \in {"scan", "done"} =>
        /\ normalize_arabic(normalized) = normalized
        /\ Range(normalized) \cap ({"tatweel", "ta_marbuta"} \cup AlifVariants)
              = {}

\* A normalized text that lost a tatweel and had another character folded.
NormalizationWitness ==
    /\ pc = "done"
    /\ "tatweel" \in Range(arabic_text)
    /\ Range(arabic_text) \cap (AlifVariants \cup {"ta_marbuta"}) # {}
    /\ Len(normalized) < Len(arabic_text)
    /\ normalized # <<>>

PriorityTableComplete ==
    engine.constructed =>
        \A r \in Range(engine.tajweed_rules) :
            r.category \in DOMAIN engine.rule_priority

\* C8: at a noon immediately followed by ba, iqlab is accepted, the duration
\* is 2 and the phoneme is "m".
ScenarioIqlab ==
    \A q \in Scanned :
        (CharAt(q) = "noon" /\ CharAt(q + 1) = "ba")
        => /\ Accepted(q, "iqlab")
           /\ duration_sequence[q + 1] = 2
           /\ phoneme_sequence[q + 1] = "m"

\* A scanned noon immediately followed by ba.
ScenarioIqlabWitness ==
    \E q \in Scanned : CharAt(q) = "noon" /\ CharAt(q + 1) = "ba"

\* C9: at a noon immediately followed by a throat letter, izhaar_halqi is
\* accepted, the duration is 1 and the phoneme is the base phoneme "n".
ScenarioIzhaar ==
    \A q \in Scanned :
        (CharAt(q) = "noon" /\ CharAt(q + 1) \in throat_letters)
        => /\ Accepted(q, "izhaar_halqi")
           /\ duration_sequence[q + 1] = 1
           /\ phoneme_sequence[q + 1] = "n"

\* A scanned noon immediately followed by a throat letter.
ScenarioIzhaarWitness ==
    \E q \in Scanned : CharAt(q) = "noon" /\ CharAt(q + 1) \in throat_letters

\* C10: at an echo letter immediately followed by sukun, qalqalah_kubra alone
\* is accepted, with duration 2, when the sukun ends the text or is followed
\* by whitespace; qalqalah_wusta alone, with duration 1, when the sukun is
\* followed by a character that is not whitespace.
ScenarioQalqalah ==
    \A q \in Scanned :
        (CharAt(q) \in qalqalah_letters /\ CharAt(q + 1) = "sukun")
        => IF q + 2 >= Len(arabic_text) \/ isspace(CharAt(q + 2))
           THEN /\ Accepted(q, "qalqalah_kubra")
                /\ ~Accepted(q, "qalqalah_wusta")
                /\ duration_sequence[q + 1] = 2
           ELSE /\ Accepted(q, "qalqalah_wusta")
                /\ ~Accepted(q, "qalqalah_kubra")
                /\ duration_sequence[q + 1] = 1

\* A text with an echo letter and sukun before another character, scanned.
ScenarioQalqalahWitness ==
    \E q \in Scanned :
        /\ CharAt(q) \in qalqalah_letters
        /\ CharAt(q + 1) = "sukun"
        /\ q + 2 < Len(arabic_text)
        /\ ~isspace(CharAt(q + 2))

\* The duration emitted at offset p.
DurationAt(p) == duration_sequence[p + 1]

\* A lam at offset p, preceded by alif, with a character two offsets ahead.
ArticleLam(p) ==
    /\ p >= 1
    /\ p + 2 < Len(arabic_text)
    /\ CharAt(p) = "lam"
    /\ CharAt(p - 1) = "alif"

\* C11: at a lam preceded by alif, lam_shamsiyyah is accepted with duration 2
\* when the character two offsets ahead is a sun letter, lam_qamariyyah with
\* duration 1 when it is a moon letter, and no position has both accepted.
ScenarioArticle ==
    \A q \in Scanned :
        /\ (ArticleLam(q) /\ CharAt(q + 2) \in shamsi_letters)
           => (Accepted(q, "lam_shamsiyyah") /\ DurationAt(q) = 2)
        /\ (ArticleLam(q) /\ CharAt(q + 2) \in qamari_letters)
           => (Accepted(q, "lam_qamariyyah") /\ DurationAt(q) = 1)
        /\ ~(Accepted(q, "lam_shamsiyyah") /\ Accepted(q, "lam_qamariyyah"))

\* A returned result in which an article lam before a sun letter was scanned
\* (the four-character text: alif, lam, any character, sun letter).
ScenarioArticleWitness ==
    /\ pc = "done"
    /\ \E q \in Scanned : ArticleLam(q) /\ CharAt(q + 2) \in shamsi_letters

\* C12: at every scanned position whose character is an always-heavy letter,
\* tafkhim_daim is accepted, whatever its neighbours and whatever else
\* matches there.
ScenarioHeavy ==
    \A q \in Scanned :
        CharAt(q) \in always_heavy => Accepted(q, "tafkhim_daim")

\* A scanned heavy letter between two characters, at which a rule of a
\* higher priority (qalqalah) was accepted as well.
ScenarioHeavyWitness ==
    \E q \in Scanned :
        /\ CharAt(q) \in always_heavy
        /\ q >= 1
        /\ q + 1 < Len(arabic_text)
        /\ Accepted(q, "qalqalah_kubra") \/ Accepted(q, "qalqalah_wusta")

\* C13: for the empty string no error is raised, and the result returned has
\* empty phoneme, attribute and duration sequences, an empty log and a
\* rule_count of 0.
EmptyText ==
    arabic_text = <<>> =>
        /\ pc # "IndexError"
        /\ pc = "done" =>
              /\ result.returned
              /\ result.phoneme_sequence = <<>>
              /\ result.sifa_sequence = <<>>
              /\ result.duration_sequence = <<>>
              /\ result.rule_applications = <<>>
              /\ result.metadata.rule_count = 0

\* process_text has returned for the empty string.
EmptyTextWitness == pc = "done" /\ arabic_text = <<>> /\ result.returned

\* C14: every application of the log has a position p with
\* 0 <= p < len(original text), its arabic_char is the character of the
\* original text at p, and that character is not whitespace.
PositionsIndexOriginal ==
    /\ \A a \in Range(rule_applications) :
          /\ a.position \in 0..(Len(arabic_text) - 1)
          /\ a.arabic_char = CharAt(a.position)
          /\ ~isspace(CharAt(a.position))
    /\ pc = "done" =>
          \A a \in Range(result.rule_applications) :
              /\ a.position \in 0..(Len(result.original_text) - 1)
              /\ a.arabic_char = At(result.original_text, a.position)
              /\ ~isspace(At(result.original_text, a.position))

\* A returned log with an application whose position lies past the end of
\* the normalized text (tatweel was dropped before it) in a text that holds
\* whitespace as well.
PositionsIndexOriginalWitness ==
    /\ pc = "done"
    /\ \E a \in Range(result.rule_applications) :
          a.position >= Len(result.normalized_text)
    /\ \E k \in 1..Len(arabic_text) : isspace(arabic_text[k])

\* A character that is not whitespace and has no entry in the phoneme table.
Unrecognized(c) == ~isspace(c) /\ c \notin DOMAIN reverse_phoneme_map

\* C15: at a character that is not whitespace and has no entry in the
\* phoneme table, the phoneme is the character itself, the attribute is "_",
\* the duration is 1 and the log has no application; a text of such
\* characters and whitespace only returns an empty log.
UnrecognizedPassThrough ==
    /\ \A q \in Scanned :
          Unrecognized(CharAt(q)) =>
              /\ phoneme_sequence[q + 1] = CharAt(q)
              /\ sifa_sequence[q + 1] = "_"
              /\ duration_sequence[q + 1] = 1
              /\ \A a \in Range(rule_applications) : a.position # q
    /\ (/\ pc = "done"
        /\ \A c \in Range(arabic_text) : isspace(c) \/ Unrecognized(c))
       => result.metadata.rule_count = 0

\* A returned result for a text with an unrecognized character next to a
\* character at which a rule was accepted.
UnrecognizedWitness ==
    /\ pc = "done"
    /\ \E q \in Scanned :
          /\ Unrecognized(CharAt(q))
          /\ \E a \in Range(rule_applications) : a.position = q + 1

\* C16: the engine's tables, catalog, priority table and conflict table are
\* those built by the constructor after any number of calls, and a call
\* returns for a text what the first call on the new engine returned for it,
\* whatever was processed in between.
EngineUnchanged ==
    /\ engine.constructed => engine = NewEngine("hafs")
    /\ (pc = "done" /\ previous.returned
           /\ arabic_text = previous.original_text)
       => result = previous

\* The third call has returned, for the text of the first call, with a log
\* that is not empty.
EngineUnchangedWitness ==
    /\ pc = "done"
    /\ previous.returned
    /\ arabic_text = previous.original_text
    /\ result.returned
    /\ result.rule_applications # <<>>

\* The names of the rules accepted at offset p, in the order of the log.
NamesAt(p) ==
    LET at_p(a) == a.position = p
        hits == SelectSeq(rule_applications, at_p)
    IN  [j \in 1..Len(hits) |-> hits[j].rule_name]

\* C17: the breakdown of a returned result has one entry per input position,
\* and entry k has position k, the character of the input at offset k, and
\* the names of the rules accepted at offset k.
BreakdownAligned ==
    pc = "done" =>
        LET breakdown == get_detailed_breakdown(result)
        IN  /\ Len(breakdown) = Len(arabic_text)
            /\ \A k \in 0..(Len(breakdown) - 1) :
                  /\ breakdown[k + 1].position = k
                  /\ breakdown[k + 1].arabic = CharAt(k)
                  /\ breakdown[k + 1].rules = NamesAt(k)

\* C18: at a long-vowel letter followed by whitespace and then hamza,
\* madd_jaiz_munfasil is accepted and the duration is 4.
ScenarioMunfasil ==
    \A q \in Scanned :
        (/\ CharAt(q) \in madd_letters
         /\ isspace(CharAt(q + 1))
         /\ CharAt(q + 2) = "hamza")
        => (Accepted(q, "madd_jaiz_munfasil") /\ DurationAt(q) = 4)

\* C19: at a long-vowel letter with a shadda two offsets ahead, madd_lazim
\* is accepted and the duration is 6, whatever the character in between.
ScenarioLazim ==
    \A q \in Scanned :
        (CharAt(q) \in madd_letters /\ CharAt(q + 2) = "shadda")
        => (Accepted(q, "madd_lazim") /\ DurationAt(q) = 6)

\* The other rules of category MADD.
SpecialisedMadd ==
    {"madd_wajib_muttasil", "madd_jaiz_munfasil", "madd_lazim", "madd_lin"}

\* C20: madd_tabii is accepted at a position exactly when its character is
\* a long-vowel letter, the next character (if any) is neither hamza nor
\* sukun and the second-next (if any) is not shadda; it is never accepted
\* together with another madd rule.
NaturalMadd ==
    \A q \in Scanned :
        /\ Accepted(q, "madd_tabii")
           <=> (/\ CharAt(q) \in madd_letters
                /\ q + 1 < Len(arabic_text)
                      => CharAt(q + 1) \notin {"hamza", "sukun"}
                /\ q + 2 < Len(arabic_text) => CharAt(q + 2) # "shadda")
        /\ Accepted(q, "madd_tabii")
           => \A n \in SpecialisedMadd : ~Accepted(q, n)

\* A log with madd_tabii accepted at one long-vowel letter and, at another
\* one or in another text position, a specialised rule accepted without it.
NaturalMaddWitness ==
    /\ \E q \in Scanned : Accepted(q, "madd_tabii")
    /\ \E q \in Scanned :
          /\ CharAt(q) \in madd_letters
          /\ ~Accepted(q, "madd_tabii")
          /\ \E n \in SpecialisedMadd : Accepted(q, n)

\* C21: at a waw or ya immediately followed by a sukun that ends the text or
\* is followed by a character that is no long-vowel letter, madd_lin is
\* accepted and the duration is 4.
ScenarioLin ==
    \A q \in Scanned :
        (/\ CharAt(q) \in {"waw", "ya"}
         /\ CharAt(q + 1) = "sukun"
         /\ CharAt(q + 2) \notin madd_letters)
        => (Accepted(q, "madd_lin") /\ DurationAt(q) = 4)

\* The labial rules.
Shafawi == {"ikhfaa_shafawi", "idgham_shafawi", "izhaar_shafawi"}

\* C22: at a meem immediately followed by sukun exactly one labial rule is
\* accepted: ikhfaa_shafawi (duration 2) before ba, idgham_shafawi
\* (duration 2) before meem, izhaar_shafawi (duration 1) before anything
\* else, whitespace and the end of the text included.
ScenarioShafawi ==
    \A q \in Scanned :
        (CharAt(q) = "meem" /\ CharAt(q + 1) = "sukun")
        => LET expected == IF CharAt(q + 2) = "ba" THEN "ikhfaa_shafawi"
                           ELSE IF CharAt(q + 2) = "meem" THEN "idgham_shafawi"
                           ELSE "izhaar_shafawi"
           IN  /\ \A n \in Shafawi : Accepted(q, n) <=> n = expected
               /\ DurationAt(q) = IF expected = "izhaar_shafawi" THEN 1 ELSE 2

\* C23: no character is both a whispered and a voiced letter, and at no
\* position are hams and jahr both accepted.
HamsJahrComplementary ==
    \A q \in Scanned :
        /\ ~(CharAt(q) \in hams_letters /\ CharAt(q) \in jahr_letters)
        /\ ~(Accepted(q, "hams") /\ Accepted(q, "jahr"))

\* The applications of the log at offset p.
AppsAt(p) == {a \in Range(rule_applications) : a.position = p}

\* The catalog index of the rule of an application, and its sort key.
CatalogIndex(a) ==
    CHOOSE k \in DOMAIN tajweed_rules : tajweed_rules[k].name = a.rule_name

PriorityOf(a) == priority_key(engine, tajweed_rules[CatalogIndex(a)])

\* C24: at a position that is not whitespace the duration is the greatest
\* duration of the rules accepted there, and 1 when none is accepted; at a
\* whitespace position the phoneme and the attribute are one space, the
\* duration is 1 and nothing is logged.
DurationIsMaximum ==
    \A q \in Scanned :
        IF isspace(CharAt(q))
        THEN /\ phoneme_sequence[q + 1] = " "
             /\ sifa_sequence[q + 1] = " "
             /\ DurationAt(q) = 1
             /\ AppsAt(q) = {}
        ELSE IF AppsAt(q) = {} THEN DurationAt(q) = 1
        ELSE /\ \E a \in AppsAt(q) : a.duration = DurationAt(q)
             /\ \A a \in AppsAt(q) : a.duration <= DurationAt(q)

\* A scanned text with whitespace, a position without accepted rule, and a
\* position where the greatest duration is not that of the first rule.
DurationIsMaximumWitness ==
    /\ \E q \in Scanned : isspace(CharAt(q))
    /\ \E q \in Scanned :
          \E a, b \in AppsAt(q) :
              /\ a.duration < b.duration
              /\ PriorityOf(a) > PriorityOf(b)

\* The sequences that hold every element of a set once.
RECURSIVE Orderings(_)
Orderings(S) ==
    IF S = {} THEN {<<>>}
    ELSE UNION {{<<x>> \o rest : rest \in Orderings(S \ {x})} : x \in S}

\* The default attributes of the character at offset p.
DefaultTags(p) ==
    IF CharAt(p) \in DOMAIN reverse_phoneme_map
    THEN Range(reverse_phoneme_map[CharAt(p)].sifa) ELSE {}

\* The distinct tags of offset p: the defaults and the accepted rules' outputs.
TagsAt(p) == DefaultTags(p) \cup {a.sifa_applied : a \in AppsAt(p)}

\* C25: at a position that is not whitespace the attribute string is the
\* distinct tags of the position joined, each once, in some order; it is "_"
\* exactly when the character has no default attribute and no rule is
\* accepted there, and it is never the empty string.
AttributeString ==
    \A q \in Scanned :
        ~isspace(CharAt(q)) =>
            /\ sifa_sequence[q + 1] # ""
            /\ sifa_sequence[q + 1] = "_"
                  <=> (DefaultTags(q) = {} /\ AppsAt(q) = {})
            /\ TagsAt(q) # {} =>
                  \E order \in Orderings(TagsAt(q)) :
                      sifa_sequence[q + 1] = join(order)

\* A scanned text with a position whose default attributes and accepted
\* rules share a tag, and a position with the sentinel.
AttributeStringWitness ==
    /\ \E q \in Scanned :
          /\ ~isspace(CharAt(q))
          /\ \E a \in AppsAt(q) : a.sifa_applied \in DefaultTags(q)
          /\ Cardinality(TagsAt(q)) >= 3
    /\ \E q \in Scanned : ~isspace(CharAt(q)) /\ sifa_sequence[q + 1] = "_"

\* The base phoneme of the character at offset p.
BasePhoneme(p) ==
    IF CharAt(p) \in DOMAIN reverse_phoneme_map
    THEN reverse_phoneme_map[CharAt(p)].phoneme ELSE CharAt(p)

\* C26: the phoneme of a position is "m" where iqlab is accepted, the empty
\* string where idgham_bi_ghunnah is accepted, and the character's base
\* phoneme everywhere else, whatever other rules are accepted there; iqlab
\* and idgham_bi_ghunnah are never both accepted at one position.
PhonemeFrame ==
    \A q \in Scanned :
        ~isspace(CharAt(q)) =>
            /\ ~(Accepted(q, "iqlab") /\ Accepted(q, "idgham_bi_ghunnah"))
            /\ phoneme_sequence[q + 1] =
                  IF Accepted(q, "iqlab") THEN "m"
                  ELSE IF Accepted(q, "idgham_bi_ghunnah") THEN ""
                  ELSE BasePhoneme(q)

\* A scanned text with iqlab accepted at one position and idgham_bi_ghunnah
\* at another, or with idgham_bila_ghunnah accepted and another rule with it.
PhonemeFrameWitness ==
    /\ \E q \in Scanned : Accepted(q, "idgham_bi_ghunnah")
    /\ \E q \in Scanned : Accepted(q, "iqlab") \/ Accepted(q, "idgham_bila_ghunnah")
    /\ \E q \in Scanned : BasePhoneme(q) # "" /\ Cardinality(AppsAt(q)) >= 2

\* C27: along the log the positions never decrease, and two successive
\* applications of one position are in descending order of their category's
\* priority, or of equal priority and in catalog order.
LogOrdered ==
    \A j \in 1..(Len(rule_applications) - 1) :
        LET a == rule_applications[j]
            b == rule_applications[j + 1]
        IN  /\ a.position <= b.position
            /\ a.position = b.position =>
                  \/ PriorityOf(a) > PriorityOf(b)
                  \/ /\ PriorityOf(a) = PriorityOf(b)
                     /\ CatalogIndex(a) < CatalogIndex(b)

\* Two successive applications of the log at one position.
SamePosition(j) ==
    /\ j \in 1..(Len(rule_applications) - 1)
    /\ rule_applications[j].position = rule_applications[j + 1].position

\* A returned log over two positions, with two successive applications of
\* equal priority at a position and two of different priorities at one.
LogOrderedWitness ==
    /\ pc = "done"
    /\ \E a, b \in Range(rule_applications) : a.position < b.position
    /\ \E j \in DOMAIN rule_applications :
          /\ SamePosition(j)
          /\ PriorityOf(rule_applications[j])
                = PriorityOf(rule_applications[j + 1])
    /\ \E j \in DOMAIN rule_applications :
          /\ SamePosition(j)
          /\ PriorityOf(rule_applications[j])
                > PriorityOf(rule_applications[j + 1])

\* The first offset of the window of offset p, and the window as a text.
WindowStart(p) == IF p >= 2 THEN p - 2 ELSE 0

WindowText(p) == Slice(arabic_text, WindowStart(p), p + 3)

\* What the engine emits for offset p of a text, computed for that offset
\* alone: the phoneme, the duration and the names of the accepted rules.
EmittedFor(text, p) ==
    LET char == At(text, p)
        known == char \in DOMAIN reverse_phoneme_map
        base == IF known THEN reverse_phoneme_map[char].phoneme ELSE char
        applied == apply_rules_at_position(engine, text, p, base,
                                           get_letter_context(text, p))
    IN  IF isspace(char)
        THEN [phoneme |-> " ", duration |-> 1, rules |-> <<>>]
        ELSE [phoneme |-> applied.modified_phoneme,
              duration |-> max_duration(applied.applications),
              rules |-> [k \in 1..Len(applied.applications) |->
                           applied.applications[k].rule_name]]

\* C28: the phoneme, the duration and the accepted rules of a position are
\* those the engine emits for the same position of the text cut down to the
\* offsets i-2..i+2, so they depend on that window alone, not on the rest of
\* the text nor on what was emitted before.
WindowIndependence ==
    \A q \in Scanned :
        [phoneme |-> phoneme_sequence[q + 1],
         duration |-> DurationAt(q),
         rules |-> NamesAt(q)]
        = EmittedFor(WindowText(q), q - WindowStart(q))

\* A returned result with a rule accepted at a position whose window leaves
\* out a character of the text that is not whitespace, and whose predicates
\* looked two offsets back.
WindowIndependenceWitness ==
    /\ pc = "done"
    /\ \E q \in Scanned :
          /\ q >= 3
          /\ ~isspace(CharAt(q - 3))
          /\ AppsAt(q) # {}
          /\ q - 2 \in reads_at(engine, arabic_text, q)
          /\ Len(WindowText(q)) < Len(arabic_text)

\* C29: tafkhim_ra and tarqeeq_ra are never both accepted at one position.
RaNeverBoth ==
    \A q \in Scanned :
        ~(Accepted(q, "tafkhim_ra") /\ Accepted(q, "tarqeeq_ra"))

\* The five rules of noon sakinah and tanween.
NoonRules ==
    {"izhaar_halqi", "idgham_bi_ghunnah", "idgham_bila_ghunnah", "iqlab",
     "ikhfaa"}

\* The engine with an empty conflict table.
WithoutConflicts == [engine EXCEPT !.rule_conflicts = <<>>]

\* C30: at every position the rules accepted are those accepted with an
\* empty conflict table, and at most one of the five noon/tanween predicates
\* matches.
ConflictTableInert ==
    \A q \in Scanned :
        ~isspace(CharAt(q)) =>
            /\ LET applied ==
                      apply_rules_at_position(WithoutConflicts, arabic_text, q,
                          BasePhoneme(q), get_letter_context(arabic_text, q))
               IN  NamesAt(q) = [k \in 1..Len(applied.applications) |->
                                   applied.applications[k].rule_name]
            /\ \A r1, r2 \in Range(engine.tajweed_rules) :
                  (/\ r1.name \in NoonRules
                   /\ r2.name \in NoonRules
                   /\ matches(r1, arabic_text, q)
                   /\ matches(r2, arabic_text, q))
                  => r1 = r2

\* A scanned text in which two rules that are keys of the conflict table
\* were accepted, at a noon or a tanween each.
ConflictTableInertWitness ==
    \E q1, q2 \in Scanned :
        \E n1, n2 \in DOMAIN engine.rule_conflicts :
            /\ n1 # n2
            /\ Accepted(q1, n1)
            /\ Accepted(q2, n2)

====
